---- MODULE Spec2Model ----
(***************************************************************************)
(* A model of filter.py: the keyword relevance classifier                  *)
(* (is_relevant_entry), the keyword suggester (extract_potential_keywords) *)
(* and the Streamlit script that loads the two keyword lists from a        *)
(* spreadsheet, filters an uploaded table and writes keywords back.        *)
(*                                                                         *)
(* A Python str is a sequence of one-character strings.  A cell of the     *)
(* uploaded table is a record [kind, text, num]: a str, the float NaN that *)
(* pandas produces for a blank cell, None, or a number.                    *)
(***************************************************************************)
EXTENDS Integers, Sequences, FiniteSets, TLC

VARIABLES
    \* one call of is_relevant_entry
    headline, position, keywords, exclusion_keywords, called, result,
    \* one call of extract_potential_keywords
    text_series, existing_keywords, suggested, suggestions,
    \* the spreadsheet and the script runs (sessions) of the users
    sheets, session, runs

vars == <<headline, position, keywords, exclusion_keywords, called, result,
          text_series, existing_keywords, suggested, suggestions,
          sheets, session, runs>>

classifierVars == <<headline, position, keywords, exclusion_keywords, called, result>>
suggesterVars == <<text_series, existing_keywords, suggested, suggestions>>
appVars == <<sheets, session, runs>>

-----------------------------------------------------------------------------
(* Bounds of the model *)

\* longest text field drawn over the full field alphabet
MaxLen == 3
\* largest keyword list handed to the classifier
MaxKws == 1
\* longest short row handed to the suggester
MaxRowLen == 3
\* number of distinct words the long rows are built from
NWords == 29
\* script runs of all user sessions together
MaxRuns == 2

-----------------------------------------------------------------------------
(* Python strings *)

\* the characters str.strip() removes that the model's alphabets contain
Whitespace == {" ", "\t"}

\* the ASCII letters
LowerLetters ==
    <<"a", "b", "c", "d", "e", "f", "g", "h", "i", "j", "k", "l", "m",
      "n", "o", "p", "q", "r", "s", "t", "u", "v", "w", "x", "y", "z">>
UpperLetters ==
    <<"A", "B", "C", "D", "E", "F", "G", "H", "I", "J", "K", "L", "M",
      "N", "O", "P", "Q", "R", "S", "T", "U", "V", "W", "X", "Y", "Z">>

\* str.lower() on one character
LowerChar(c) ==
    IF \E i \in DOMAIN UpperLetters : UpperLetters[i] = c
    THEN LowerLetters[CHOOSE i \in DOMAIN UpperLetters : UpperLetters[i] = c]
    ELSE c

\* str.lower()
Lower(s) == [i \in 1..Len(s) |-> LowerChar(s[i])]

\* str.lstrip(): drop the leading whitespace
RECURSIVE LStrip(_)
LStrip(s) ==
    IF s # <<>> /\ Head(s) \in Whitespace THEN LStrip(Tail(s)) ELSE s

\* str.rstrip(): drop the trailing whitespace
RECURSIVE RStrip(_)
RStrip(s) ==
    IF s # <<>> /\ s[Len(s)] \in Whitespace
    THEN RStrip(SubSeq(s, 1, Len(s) - 1))
    ELSE s

\* str.strip()
Strip(s) == RStrip(LStrip(s))

\* Python's `sub in s` on strings
Contains(sub, s) ==
    \E i \in 0..(Len(s) - Len(sub)) : SubSeq(s, i + 1, i + Len(sub)) = sub

\* the f-string f" {x} "
Spaced(x) == <<" ">> \o x \o <<" ">>

\* all strings over alphabet A whose length is in lo..hi
StringsOver(A, lo, hi) == UNION {[1..n -> A] : n \in lo..hi}

-----------------------------------------------------------------------------
(* Cells of the uploaded table *)

StrCell(s) == [kind |-> "str", text |-> s, num |-> 0]
NaN == [kind |-> "nan", text |-> <<>>, num |-> 0]
None == [kind |-> "none", text |-> <<>>, num |-> 0]
NumCell(n) == [kind |-> "num", text |-> <<>>, num |-> n]

\* the decimal digits, for str() of a small non-negative integer
DigitChars == <<"0", "1", "2", "3", "4", "5", "6", "7", "8", "9">>

\* str(value): a str is itself, NaN is "nan", None is "None", 7 is "7"
Str(v) ==
    CASE v.kind = "str" -> v.text
      [] v.kind = "nan" -> <<"n", "a", "n">>
      [] v.kind = "none" -> <<"N", "o", "n", "e">>
      [] v.kind = "num" -> <<DigitChars[v.num + 1]>>

-----------------------------------------------------------------------------
(* The relevance classifier *)

\* mutant: the field is not lowercased before the exclusion phrases are looked up
contains_exact_exclusion_CaseSensitive(text, exclusions) ==
    LET padded == Spaced(text) IN
    \E ex_kw \in exclusions :
        Contains(Spaced(ex_kw), padded) \/ Strip(padded) = ex_kw

\* mutant: the exclusion phrase is looked up as a plain substring
contains_exact_exclusion_Substring(text, exclusions) ==
    \E ex_kw \in exclusions : Contains(ex_kw, Lower(text))

\* mutant: the field is not padded, so a phrase at its start or end is missed
contains_exact_exclusion_Unpadded(text, exclusions) ==
    LET lowered == Lower(text) IN
    \E ex_kw \in exclusions :
        Contains(Spaced(ex_kw), lowered) \/ Strip(lowered) = ex_kw

contains_exact_exclusion(text, exclusions) ==
    LET padded == Spaced(Lower(text)) IN
    \E ex_kw \in exclusions :
        Contains(Spaced(ex_kw), padded) \/ Strip(padded) = ex_kw

\* mutant: inclusion keywords are matched on word boundaries, like exclusions
contains_inclusion_Boundary(text, kws) ==
    \E kw \in kws : Contains(Spaced(kw), Spaced(Lower(text)))

contains_inclusion(text, kws) ==
    \E kw \in kws : Contains(kw, Lower(text))

is_relevant_entry(h, p, kws, exclusions) ==
    IF contains_exact_exclusion(Str(h), exclusions)
       \/ contains_exact_exclusion(Str(p), exclusions)
    THEN FALSE
    ELSE contains_inclusion(Str(h), kws) \/ contains_inclusion(Str(p), kws)

-----------------------------------------------------------------------------
(* The keyword suggester *)

\* the 25 of sorted(...)[:25]
TopN == 25
\* the 3 of the token pattern [a-zA-Z]{3,}
MinTokenLen == 3

stopwords ==
    { <<"a", "n", "d">>, <<"t", "h", "e">>, <<"f", "o", "r">>, <<"w", "i", "t", "h">>,
      <<"f", "r", "o", "m">>, <<"t", "h", "i", "s">>, <<"t", "h", "a", "t">>,
      <<"y", "o", "u">>, <<"a", "r", "e">>, <<"h", "a", "v", "e">>, <<"h", "a", "s">>,
      <<"n", "o", "t">>, <<"a", "l", "l">>, <<"a", "n", "y">>, <<"c", "a", "n">>,
      <<"b", "u", "t">>, <<"o", "u", "t">>, <<"v", "i", "a">>, <<"i", "t", "s">>,
      <<"h", "i", "s">>, <<"h", "e", "r">>, <<"o", "u", "r">>, <<"y", "o", "u", "r">>,
      <<"t", "h", "e", "y">>, <<"t", "h", "e", "m">>, <<"o", "n">>, <<"a", "t">>,
      <<"i", "n">>, <<"t", "o">>, <<"b", "y">>, <<"o", "f">>, <<"i", "s">>,
      <<"a", "s">>, <<"a", "n">>, <<"o", "r">>, <<"b", "e">>, <<"a">>, <<"w", "e">>,
      <<"i">>, <<"i", "t">> }

SeqRange(q) == {q[i] : i \in DOMAIN q}

\* [a-zA-Z]
IsLetter(c) == c \in SeqRange(LowerLetters) \cup SeqRange(UpperLetters)

\* \w on ASCII text: a letter, a digit or the underscore
IsWordChar(c) == IsLetter(c) \/ c \in SeqRange(DigitChars) \/ c = "_"

\* \b at offset i of t (between t[i] and t[i+1]): exactly one side is a word character
WordBoundary(t, i) ==
    (i >= 1 /\ IsWordChar(t[i])) # (i < Len(t) /\ IsWordChar(t[i + 1]))

\* how many letters follow offset i
RECURSIVE LetterRun(_, _)
LetterRun(t, i) ==
    IF i < Len(t) /\ IsLetter(t[i + 1]) THEN 1 + LetterRun(t, i + 1) ELSE 0

\* the length of the match of \b[a-zA-Z]{3,}\b at offset i, 0 when there is none:
\* the longest run of at least 3 letters that ends on a word boundary
MatchAt(t, i) ==
    IF ~WordBoundary(t, i) THEN 0
    ELSE LET ends == {n \in MinTokenLen..LetterRun(t, i) : WordBoundary(t, i + n)}
         IN IF ends = {} THEN 0 ELSE CHOOSE n \in ends : \A m \in ends : m <= n

\* re.findall: scan left to right, resume after each match
RECURSIVE FindAllFrom(_, _)
FindAllFrom(t, i) ==
    IF i >= Len(t) THEN <<>>
    ELSE LET n == MatchAt(t, i)
         IN IF n > 0
            THEN <<SubSeq(t, i + 1, i + n)>> \o FindAllFrom(t, i + n)
            ELSE FindAllFrom(t, i + 1)

\* re.findall(r'\b[a-zA-Z]{3,}\b', text.lower())
Tokenize(text) == FindAllFrom(Lower(text), 0)

\* Series.dropna(): the entries that are neither NaN nor None
dropna(series) == SelectSeq(series, LAMBDA v : v.kind \notin {"nan", "none"})

\* all_tokens after the loop over the rows (every row a str)
RECURSIVE CollectTokens(_)
CollectTokens(rows) ==
    IF rows = <<>> THEN <<>>
    ELSE Tokenize(Head(rows).text) \o CollectTokens(Tail(rows))

\* the distinct elements of q in the order of their first occurrence
RECURSIVE FirstOccurrences(_, _)
FirstOccurrences(q, seen) ==
    IF q = <<>> THEN <<>>
    ELSE IF Head(q) \in seen THEN FirstOccurrences(Tail(q), seen)
    ELSE <<Head(q)>> \o FirstOccurrences(Tail(q), seen \cup {Head(q)})

CountOf(w, q) == Cardinality({i \in DOMAIN q : q[i] = w})

\* Counter(all_tokens).items(): (word, count) pairs in first-occurrence order
CounterItems(tokens) ==
    LET words == FirstOccurrences(tokens, {})
    IN [i \in DOMAIN words |-> [word |-> words[i], count |-> CountOf(words[i], tokens)]]

\* mutant: a token seen once is kept too
Retained_SeenOnce(item, existing) ==
    /\ item.word \notin existing
    /\ item.word \notin stopwords
    /\ item.count >= 1

\* the condition of the dict comprehension
Retained(item, existing) ==
    /\ item.word \notin existing
    /\ item.word \notin stopwords
    /\ item.count > 1

\* insert item behind every element whose count is at least its own
InsertByCount(sorted, item) ==
    LET before == {i \in DOMAIN sorted : sorted[i].count >= item.count}
        k == IF before = {} THEN 0 ELSE CHOOSE i \in before : \A j \in before : j <= i
    IN SubSeq(sorted, 1, k) \o <<item>> \o SubSeq(sorted, k + 1, Len(sorted))

RECURSIVE SortFrom(_, _)
SortFrom(acc, items) ==
    IF items = <<>> THEN acc
    ELSE SortFrom(InsertByCount(acc, Head(items)), Tail(items))

\* mutant: reverse=True is forgotten, the counts ascend
SortedByCount_Ascending(items) ==
    LET Asc(acc, item) ==
            LET before == {i \in DOMAIN acc : acc[i].count <= item.count}
                k == IF before = {} THEN 0
                     ELSE CHOOSE i \in before : \A j \in before : j <= i
            IN SubSeq(acc, 1, k) \o <<item>> \o SubSeq(acc, k + 1, Len(acc))
        F[n \in 0..Len(items)] == IF n = 0 THEN <<>> ELSE Asc(F[n - 1], items[n])
    IN F[Len(items)]

\* sorted(items, key=count, reverse=True): descending, equal counts keep their order
SortedByCount(items) == SortFrom(<<>>, items)

\* [:25]
Top(items) == SubSeq(items, 1, IF Len(items) < TopN THEN Len(items) ELSE TopN)

extract_potential_keywords(series, existing) ==
    LET rows == dropna(series)
    IN IF \E i \in DOMAIN rows : rows[i].kind # "str"
       THEN \* text.lower() on a value that is no str: AttributeError
            [raised |-> TRUE, items |-> <<>>]
       ELSE LET counts == CounterItems(CollectTokens(rows))
                kept == SelectSeq(counts, LAMBDA item : Retained(item, existing))
            IN [raised |-> FALSE, items |-> Top(SortedByCount(kept))]

-----------------------------------------------------------------------------
(* Inputs of the classifier *)

FieldAlphabet == {"a", "A", " ", "\t"}
PhraseAlphabet == {"a", " "}

\* headlines: every short string, longer strings of words, and non-strings
Headlines ==
    {StrCell(s) : s \in StringsOver(FieldAlphabet, 0, MaxLen)}
    \cup {StrCell(s) : s \in StringsOver(PhraseAlphabet, MaxLen + 1, MaxLen + 2)}
    \cup {NaN, None, NumCell(7)}

Positions ==
    {StrCell(<<>>), StrCell(<<"A">>), StrCell(<<"a", " ", "a">>), NaN, None}

\* keywords as the loaders return them: trimmed, lowercase, not empty
KeywordPool ==
    {<<"a">>, <<"a", "a">>, <<"a", " ", "a">>, <<"n", "a", "n">>, <<"n">>}

KeywordLists == {K \in SUBSET KeywordPool : Cardinality(K) <= MaxKws}

InitIdleSuggester ==
    /\ text_series = <<>>
    /\ existing_keywords = {}
    /\ suggested = FALSE
    /\ suggestions = [raised |-> FALSE, items |-> <<>>]

InitIdleApp ==
    /\ sheets = [keywords |-> <<>>, remove |-> <<>>]
    /\ session = <<>>
    /\ runs = 0

InitClassifier ==
    /\ headline \in Headlines
    /\ position \in Positions
    /\ keywords \in KeywordLists
    /\ exclusion_keywords \in KeywordLists
    /\ called = FALSE
    /\ result = FALSE
    /\ InitIdleSuggester
    /\ InitIdleApp

\* the call is_relevant_entry(headline, position, keywords, exclusion_keywords)
Classify ==
    /\ ~called
    /\ called' = TRUE
    /\ result' = is_relevant_entry(headline, position, keywords, exclusion_keywords)
    /\ UNCHANGED <<headline, position, keywords, exclusion_keywords>>
    /\ UNCHANGED <<suggesterVars, appVars>>

NextClassifier == Classify

SpecClassifier == InitClassifier /\ [][NextClassifier]_vars

-----------------------------------------------------------------------------
(* Inputs of the suggester *)

SuggestAlphabet == {"a", "A", "1", " "}

WordLetters == <<"a", "n", "d">>

\* word number i: the 27 three-letter words over a, n, d ("and" among them),
\* then the same words behind one more "a", and so on
RECURSIVE Word(_)
Word(i) ==
    IF i < 27
    THEN <<WordLetters[(i \div 9) + 1], WordLetters[((i \div 3) % 3) + 1],
           WordLetters[(i % 3) + 1]>>
    ELSE <<"a">> \o Word(i - 27)

\* the words lo .. hi-1 separated by single spaces
RECURSIVE WordsText(_, _)
WordsText(lo, hi) ==
    IF lo >= hi THEN <<>>
    ELSE IF lo + 1 = hi THEN Word(lo)
    ELSE Word(lo) \o <<" ">> \o WordsText(lo + 1, hi)

Breaks == {0, 3, 26, NWords}

ShortRows ==
    {StrCell(s) : s \in StringsOver(SuggestAlphabet, 0, MaxRowLen)}
    \cup {NaN, None, NumCell(7)}

LongRows ==
    {StrCell(WordsText(b[1], b[2])) : b \in {c \in Breaks \X Breaks : c[1] < c[2]}}
    \cup {NaN}

SeqsUpTo(S, n) == UNION {[1..k -> S] : k \in 0..n}

SeriesPool == SeqsUpTo(ShortRows, 2) \cup SeqsUpTo(LongRows, 3)

ExistingPool == { {}, {Word(0), Word(26)} }

InitIdleClassifier ==
    /\ headline = StrCell(<<>>)
    /\ position = StrCell(<<>>)
    /\ keywords = {}
    /\ exclusion_keywords = {}
    /\ called = FALSE
    /\ result = FALSE

InitSuggester ==
    /\ text_series \in SeriesPool
    /\ existing_keywords \in ExistingPool
    /\ suggested = FALSE
    /\ suggestions = [raised |-> FALSE, items |-> <<>>]
    /\ InitIdleClassifier
    /\ InitIdleApp

\* the call extract_potential_keywords(text_series, existing_keywords)
Suggest ==
    /\ ~suggested
    /\ suggested' = TRUE
    /\ suggestions' = extract_potential_keywords(text_series, existing_keywords)
    /\ UNCHANGED <<text_series, existing_keywords>>
    /\ UNCHANGED <<classifierVars, appVars>>

NextSuggester == Suggest

SpecSuggester == InitSuggester /\ [][NextSuggester]_vars

-----------------------------------------------------------------------------
(* The spreadsheet *)

\* TAB_NAME and REMOVE_TAB: the two worksheets, each modelled by its first column
TAB_NAME == "keywords"
REMOVE_TAB == "remove"

\* the header rows the save functions write
KeywordHeader == <<"K", "e", "y", "w", "o", "r", "d">>
ExclusionHeader ==
    <<"E", "x", "c", "l", "u", "s", "i", "o", "n", " ", "K", "e", "y", "w", "o", "r", "d">>

HeaderOf(tab) == IF tab = TAB_NAME THEN KeywordHeader ELSE ExclusionHeader

\* the characters in code point order, for comparing strings
CodeOrder == <<"\t", " ">> \o DigitChars \o UpperLetters \o <<"_">> \o LowerLetters

Ord(c) == CHOOSE i \in DOMAIN CodeOrder : CodeOrder[i] = c

\* Python's a < b on strings
RECURSIVE StrLess(_, _)
StrLess(a, b) ==
    IF b = <<>> THEN FALSE
    ELSE IF a = <<>> THEN TRUE
    ELSE IF Head(a) = Head(b) THEN StrLess(Tail(a), Tail(b))
    ELSE Ord(Head(a)) < Ord(Head(b))

\* sorted(set): the strings of S in ascending order
RECURSIVE SortedStrings(_)
SortedStrings(S) ==
    IF S = {} THEN <<>>
    ELSE LET least == CHOOSE x \in S : \A y \in S : x = y \/ StrLess(x, y)
         IN <<least>> \o SortedStrings(S \ {least})

\* set(kw.strip().lower() for kw in sheet.col_values(1) if kw.strip())
LoadedFrom(cells) ==
    {Lower(Strip(cells[i])) : i \in {j \in DOMAIN cells : Strip(cells[j]) # <<>>}}

\* the rows save_..._to_sheet hands to sheet.update
RowsToWrite(tab, current, new) == <<HeaderOf(tab)>> \o SortedStrings(current \cup new)

\* sheet.update(rows): the rows overwrite the column from its first cell on
Updated(cells, rows) ==
    [i \in 1..(IF Len(cells) > Len(rows) THEN Len(cells) ELSE Len(rows)) |->
        IF i <= Len(rows) THEN rows[i] ELSE cells[i]]

-----------------------------------------------------------------------------
(* The script runs of the users *)

Users == {"u1", "u2"}

Row(h, p) == [headline |-> h, current_company_position |-> p]

\* the uploaded tables
Tables ==
    { <<Row(StrCell(<<"a", "a", "a">>), StrCell(<<"A", "a", "a", " ">>)),
        Row(StrCell(<<"d", "a", "d", " ", "D", "a", "d">>), NaN),
        Row(StrCell(<<"A", "A", "A", " ", "d", "a", "d">>), NaN)>> }

\* the uploaded CSV files: their columns and their rows
Uploads ==
    {[columns |-> {"headline", "current_company_position"}, rows |-> t] : t \in Tables}
    \cup {[columns |-> {"title"}, rows |-> <<>>]}

\* the check of line 105: both text columns are present
HasColumns(upload) ==
    "headline" \in upload.columns /\ "current_company_position" \in upload.columns

\* what a user types into the manual exclusion box: blanks, a lone comma, "N , "
ManualInputs ==
    { <<" ", " ">>, <<",">>, <<"N", " ", ",", " ">> }

\* str.split(","): the pieces between the commas
RECURSIVE SplitAtCommas(_, _)
SplitAtCommas(s, piece) ==
    IF s = <<>> THEN <<piece>>
    ELSE IF Head(s) = "," THEN <<piece>> \o SplitAtCommas(Tail(s), <<>>)
    ELSE SplitAtCommas(Tail(s), Append(piece, Head(s)))

\* [kw.strip().lower() for kw in text.split(",") if kw.strip()], as a set
ManualExclusions(typed) ==
    LET pieces == SplitAtCommas(typed, <<>>)
    IN {Lower(Strip(pieces[i])) : i \in {j \in DOMAIN pieces : Strip(pieces[j]) # <<>>}}

\* the sheets when the first user arrives, kept by hand
InitialSheets ==
    { [keywords |-> <<<<"a", "a", "a">>>>,
       remove |-> <<<<"n", "a", "n">>>>] }

NewSession ==
    [pc |-> "start",
     keywords |-> {}, exclusion_keywords |-> {},
     failed |-> "none", reported |-> {}, filtered |-> FALSE,
     df |-> <<>>, mask |-> <<>>, suggestions |-> <<>>,
     target |-> "none", new |-> {}, current |-> {}, stored_before |-> {}]

\* the locals of the table section and of a save, once they are no longer read
NoTable == [df |-> <<>>, mask |-> <<>>, suggestions |-> <<>>]
NoSave == [target |-> "none", new |-> {}, current |-> {}, stored_before |-> {}]

InitApp ==
    /\ sheets \in InitialSheets
    /\ session = [u \in Users |-> [NewSession EXCEPT !.pc = "idle"]]
    /\ runs = 0
    /\ InitIdleClassifier
    /\ InitIdleSuggester

Set(u, changes) ==
    /\ session' = [session EXCEPT ![u] = changes @@ session[u]]
    /\ UNCHANGED <<runs, classifierVars, suggesterVars>>

\* keywords = load_keywords() succeeds
LoadKeywordsOk(u) ==
    /\ session[u].pc = "start"
    /\ Set(u, [pc |-> "load_exclusions", keywords |-> LoadedFrom(sheets[TAB_NAME])])
    /\ UNCHANGED sheets

\* mutant: a failed load of the inclusion list is reported but the run goes on
LoadKeywordsFail_Continues(u) ==
    /\ session[u].pc = "start"
    /\ Set(u, [pc |-> "load_exclusions", failed |-> "keywords",
                reported |-> session[u].reported \cup {"error"}])
    /\ UNCHANGED sheets

\* load_keywords() raises: st.error, st.stop()
LoadKeywordsFail(u) ==
    /\ session[u].pc = "start"
    /\ Set(u, [pc |-> "stopped", failed |-> "keywords",
                reported |-> session[u].reported \cup {"error"}])
    /\ UNCHANGED sheets

\* exclusion_keywords = load_exclusion_keywords() reads the sheet; st.success
LoadExclusionsOk(u) ==
    /\ session[u].pc = "load_exclusions"
    /\ Set(u, [pc |-> "ready", exclusion_keywords |-> LoadedFrom(sheets[REMOVE_TAB]),
                reported |-> session[u].reported \cup {"success"}])
    /\ UNCHANGED sheets

\* load_exclusion_keywords() catches the failure: st.warning, returns []; st.success
LoadExclusionsFail(u) ==
    /\ session[u].pc = "load_exclusions"
    /\ Set(u, [pc |-> "ready", exclusion_keywords |-> {}, failed |-> "exclusions",
                reported |-> session[u].reported \cup {"warning", "success"}])
    /\ UNCHANGED sheets

\* no file is uploaded: the script goes on to the manual exclusion box
NoUpload(u) ==
    /\ session[u].pc = "ready"
    /\ Set(u, [pc |-> "manual"])
    /\ UNCHANGED sheets

\* a file without the two text columns is uploaded: st.error, no filtering;
\* the script goes on to the manual exclusion box
UploadWithoutColumns(u) ==
    /\ session[u].pc = "ready"
    /\ \E upload \in Uploads : ~HasColumns(upload)
    /\ Set(u, [pc |-> "manual", reported |-> session[u].reported \cup {"error"}])
    /\ UNCHANGED sheets

\* a file is uploaded: mask = df.apply(is_relevant_entry ...)
FilterPass(u) ==
    /\ session[u].pc = "ready"
    /\ \E upload \in Uploads :
          /\ HasColumns(upload)
          /\ LET table == upload.rows
             IN Set(u, [pc |-> "leads", filtered |-> TRUE, df |-> table,
                         mask |-> [i \in DOMAIN table |->
                                     is_relevant_entry(table[i].headline,
                                                       table[i].current_company_position,
                                                       session[u].keywords,
                                                       session[u].exclusion_keywords)]])
    /\ UNCHANGED sheets

\* the rows of filtered_df / excluded_df, as indices into df
FilteredRows(u) == {i \in DOMAIN session[u].df : session[u].mask[i]}
ExcludedHeadlines(u) ==
    LET df == session[u].df
        F[i \in 0..Len(df)] ==
            IF i = 0 THEN <<>>
            ELSE IF session[u].mask[i] THEN F[i - 1]
            ELSE Append(F[i - 1], df[i].headline)
    IN F[Len(df)]

\* `if value:` on a cell: NaN, a number other than 0 and a non-empty string
\* are truthy; None, 0 and the empty string are not
Truthy(v) ==
    \/ v.kind = "nan"
    \/ v.kind = "num" /\ v.num # 0
    \/ v.kind = "str" /\ v.text # <<>>

CellsOfRows(u, rows) ==
    {session[u].df[i].headline : i \in rows}
    \cup {session[u].df[i].current_company_position : i \in rows}

\* exclusion_options: the truthy fields of the selected rows, stripped and lowercased
ExclusionOptions(u, rows) ==
    {Lower(Strip(v.text)) : v \in {c \in CellsOfRows(u, rows) : Truthy(c)}}

\* the entry point of both save functions: sheet = client.open(...).worksheet(tab)
BeginSave(u, tab, new) ==
    Set(u, [pc |-> "save_load", target |-> tab, new |-> new,
             stored_before |-> LoadedFrom(sheets[tab])] @@ NoTable)

\* rows are selected, phrases are chosen, "Add Selected to Exclusion List" is pressed
AddSelectedExclusions(u) ==
    /\ session[u].pc = "leads"
    /\ \E rows \in SUBSET FilteredRows(u) :
          /\ rows # {}
          /\ \A c \in CellsOfRows(u, rows) : Truthy(c) => c.kind = "str"
          /\ \E chosen \in SUBSET ExclusionOptions(u, rows) :
                /\ chosen # {}
                /\ BeginSave(u, REMOVE_TAB, chosen)
    /\ UNCHANGED sheets

\* rows are selected and the button is pressed with no phrase chosen:
\* st.warning, no save; the script goes on to the suggestions
AddNoExclusions(u) ==
    /\ session[u].pc = "leads"
    /\ \E rows \in SUBSET FilteredRows(u) :
          /\ rows # {}
          /\ \A c \in CellsOfRows(u, rows) : Truthy(c) => c.kind = "str"
    /\ Set(u, [pc |-> "mine", reported |-> session[u].reported \cup {"warning"}])
    /\ UNCHANGED sheets

\* a selected row has a blank (NaN) field: NaN.strip() raises AttributeError
SelectRowWithBlankField(u) ==
    /\ session[u].pc = "leads"
    /\ \E rows \in SUBSET FilteredRows(u) :
          \E c \in CellsOfRows(u, rows) : Truthy(c) /\ c.kind # "str"
    /\ Set(u, [pc |-> "crashed", reported |-> session[u].reported \cup {"exception"}]
              @@ NoTable)
    /\ UNCHANGED sheets

\* suggestions = extract_potential_keywords(excluded_df['headline'], keywords)
MineSuggestions(u) ==
    /\ session[u].pc \in {"leads", "mine"}
    /\ LET found == extract_potential_keywords(ExcludedHeadlines(u), session[u].keywords)
       IN IF found.raised
          THEN Set(u, [pc |-> "crashed",
                        reported |-> session[u].reported \cup {"exception"}] @@ NoTable)
          ELSE Set(u, [pc |-> "suggest", suggestions |-> found.items])
    /\ UNCHANGED sheets

\* "Add Selected Keywords" is pressed: save_keywords_to_sheet(selected)
AddSelectedKeywords(u) ==
    /\ session[u].pc = "suggest"
    /\ \E selected \in SUBSET {session[u].suggestions[i].word :
                                  i \in DOMAIN session[u].suggestions} :
          BeginSave(u, TAB_NAME, selected)
    /\ UNCHANGED sheets

\* the button is not pressed: the script goes on to the manual exclusion box
SkipSuggestions(u) ==
    /\ session[u].pc = "suggest"
    /\ Set(u, [pc |-> "manual"] @@ NoTable)
    /\ UNCHANGED sheets

\* "Add Manual Exclusions" is pressed with text in the box
AddManualExclusions(u) ==
    /\ session[u].pc = "manual"
    /\ \E typed \in ManualInputs :
          /\ Strip(typed) # <<>>
          /\ BeginSave(u, REMOVE_TAB, ManualExclusions(typed))
    /\ UNCHANGED sheets

\* "Add Manual Exclusions" is pressed with a blank box: st.warning, no save,
\* and the script ends
AddBlankManualExclusions(u) ==
    /\ session[u].pc = "manual"
    /\ \E typed \in ManualInputs : Strip(typed) = <<>>
    /\ Set(u, [pc |-> "idle", reported |-> session[u].reported \cup {"warning"}])
    /\ UNCHANGED sheets

\* no button is pressed: the run ends and the page waits for the user
EndRun(u) ==
    /\ session[u].pc = "manual"
    /\ Set(u, [pc |-> "idle"])
    /\ UNCHANGED sheets

\* current = load_keywords() / load_exclusion_keywords() reads the sheet
SaveLoadOk(u) ==
    /\ session[u].pc = "save_load"
    /\ Set(u, [pc |-> "save_clear", current |-> LoadedFrom(sheets[session[u].target])])
    /\ UNCHANGED sheets

\* the re-load fails: load_keywords() raises and the save is abandoned;
\* load_exclusion_keywords() warns and returns [], and the save goes on
SaveLoadFail(u) ==
    /\ session[u].pc = "save_load"
    /\ IF session[u].target = TAB_NAME
       THEN Set(u, [pc |-> "crashed",
                     reported |-> session[u].reported \cup {"exception"}] @@ NoSave)
       ELSE Set(u, [pc |-> "save_clear", current |-> {},
                     reported |-> session[u].reported \cup {"warning"}])
    /\ UNCHANGED sheets

\* sheet.clear()
SaveClear(u) ==
    /\ session[u].pc = "save_clear"
    /\ sheets' = [sheets EXCEPT ![session[u].target] = <<>>]
    /\ Set(u, [pc |-> "save_update"])

\* sheet.update(header + sorted(set(current + new))); st.success; st.rerun()
SaveUpdate(u) ==
    /\ session[u].pc = "save_update"
    /\ sheets' = [sheets EXCEPT ![session[u].target] =
                    Updated(@, RowsToWrite(session[u].target, session[u].current,
                                           session[u].new))]
    /\ Set(u, [pc |-> "rerun", reported |-> session[u].reported \cup {"success"}]
              @@ NoSave)

\* Streamlit runs the script again: after st.rerun(), or when the user acts on the page
Rerun(u) ==
    /\ session[u].pc \in {"rerun", "idle", "stopped", "crashed"}
    /\ runs < MaxRuns
    /\ runs' = runs + 1
    /\ session' = [session EXCEPT ![u] = NewSession]
    /\ UNCHANGED <<sheets, classifierVars, suggesterVars>>

NextApp ==
    \E u \in Users :
        \/ LoadKeywordsOk(u)
        \/ LoadKeywordsFail(u)
        \/ LoadExclusionsOk(u)
        \/ LoadExclusionsFail(u)
        \/ NoUpload(u)
        \/ UploadWithoutColumns(u)
        \/ FilterPass(u)
        \/ AddSelectedExclusions(u)
        \/ AddNoExclusions(u)
        \/ SelectRowWithBlankField(u)
        \/ MineSuggestions(u)
        \/ AddSelectedKeywords(u)
        \/ SkipSuggestions(u)
        \/ AddManualExclusions(u)
        \/ AddBlankManualExclusions(u)
        \/ EndRun(u)
        \/ SaveLoadOk(u)
        \/ SaveLoadFail(u)
        \/ SaveClear(u)
        \/ SaveUpdate(u)
        \/ Rerun(u)

Spec == InitApp /\ [][NextApp]_vars

-----------------------------------------------------------------------------
(* Vocabulary of the classifier's properties *)

\* a field as the classifier reads it: stringified, then lowercased
Lowered(field) == Lower(Str(field))

\* e occurs in t at index i (1-based)
OccursAt(e, t, i) ==
    /\ i >= 1
    /\ i + Len(e) - 1 <= Len(t)
    /\ SubSeq(t, i, i + Len(e) - 1) = e

Occurrences(e, t) == {i \in 1..Len(t) : OccursAt(e, t, i)}

\* the character before / after the occurrence at i is a space, or there is none
SpaceOrEdgeBefore(t, i) == i = 1 \/ t[i - 1] = " "
SpaceOrEdgeAfter(e, t, i) == i + Len(e) - 1 = Len(t) \/ t[i + Len(e)] = " "

\* e occurs in t delimited by spaces (or by the ends of t)
OccursDelimited(e, t) ==
    \E i \in Occurrences(e, t) : SpaceOrEdgeBefore(t, i) /\ SpaceOrEdgeAfter(e, t, i)

\* e occurs in t, and no occurrence has a space or an end of t on both sides
NeverDelimited(e, t) ==
    /\ Occurrences(e, t) # {}
    /\ ~OccursDelimited(e, t)

\* a letter or other non-blank character touches the occurrence at i
InsideLongerWord(e, t, i) ==
    \/ i > 1 /\ t[i - 1] \notin Whitespace
    \/ i + Len(e) - 1 < Len(t) /\ t[i + Len(e)] \notin Whitespace

\* e occurs in t, and only inside longer words
OnlyInsideLongerWords(e, t) ==
    /\ Occurrences(e, t) # {}
    /\ \A i \in Occurrences(e, t) : InsideLongerWord(e, t, i)

MultiWord(e) == \E i \in 2..(Len(e) - 1) : e[i] = " "

\* s holds text: a character that is not blank
HasText(s) == \E i \in 1..Len(s) : s[i] \notin Whitespace

\* e is at the very start / end of t with more text on the other side
AtStart(e, t) ==
    /\ OccursAt(e, t, 1)
    /\ HasText(SubSeq(t, Len(e) + 1, Len(t)))
AtEnd(e, t) ==
    /\ OccursAt(e, t, Len(t) - Len(e) + 1)
    /\ HasText(SubSeq(t, 1, Len(t) - Len(e)))

\* ... and a space separates it from that text
AtStartSpaced(e, t) == AtStart(e, t) /\ t[Len(e) + 1] = " "
AtEndSpaced(e, t) == AtEnd(e, t) /\ t[Len(t) - Len(e)] = " "

Fields == {headline, position}

ExclusionTriggers ==
    \/ contains_exact_exclusion(Str(headline), exclusion_keywords)
    \/ contains_exact_exclusion(Str(position), exclusion_keywords)

SubstringInclusion ==
    \E kw \in keywords :
        \/ Occurrences(kw, Lowered(headline)) # {}
        \/ Occurrences(kw, Lowered(position)) # {}

\* empty string, None, or the NaN of a blank CSV cell
EmptyOrMissing(v) == v.kind \in {"nan", "none"} \/ (v.kind = "str" /\ v.text = <<>>)

\* the verdict a single field determines
VerdictOfField(v) ==
    /\ ~contains_exact_exclusion(Str(v), exclusion_keywords)
    /\ contains_inclusion(Str(v), keywords)

-----------------------------------------------------------------------------
(* Properties of the classifier *)

\* C1: if either field, lowercased, equals an exclusion phrase or contains it
\* delimited by spaces, is_relevant_entry returns false, whatever the inclusion
\* keywords and the other field are.
C1_ExclusionRejects ==
    called =>
        \A f \in Fields : \A e \in exclusion_keywords :
            (Lowered(f) = e \/ OccursDelimited(e, Lowered(f))) => result = FALSE

\* C1 witness: the position holds an exclusion phrase between spaces while the
\* headline matches an inclusion keyword, and the record was rejected.
C1_Witness ==
    /\ called
    /\ result = FALSE
    /\ \E e \in exclusion_keywords :
          /\ Lowered(position) # e
          /\ OccursDelimited(e, Lowered(position))
          /\ ~OccursDelimited(e, Lowered(headline))
    /\ \E kw \in keywords : Occurrences(kw, Lowered(headline)) # {}

\* C2: when no exclusion phrase triggers on either field, is_relevant_entry
\* returns true exactly when some inclusion keyword is a substring of the
\* lowercased headline or position; with no inclusion keywords it returns false.
C2_InclusionDecides ==
    (called /\ ~ExclusionTriggers) =>
        /\ result = SubstringInclusion
        /\ (keywords = {} => result = FALSE)

\* C2 witness: a record accepted because a keyword occurs inside a longer word
\* of the headline, with exclusion phrases present that did not trigger.
C2_Witness ==
    /\ called
    /\ result = TRUE
    /\ exclusion_keywords # {}
    /\ \E kw \in keywords :
          /\ OnlyInsideLongerWords(kw, Lowered(headline))
          /\ Occurrences(kw, Lowered(position)) = {}

\* C3 as stated: an exclusion phrase that occurs in a field, never with a space
\* or the field's start/end on both of its sides, does not trigger the exclusion
\* check for that field; if it is also an inclusion keyword, the record is
\* accepted.
C3_BoundaryAware ==
    called =>
        /\ \A f \in Fields : \A e \in exclusion_keywords :
              NeverDelimited(e, Lowered(f))
                  => ~contains_exact_exclusion(Str(f), {e})
        /\ (\E f \in Fields : \E e \in exclusion_keywords \cap keywords :
                NeverDelimited(e, Lowered(f)))
           => result = TRUE

\* C3 amended: an exclusion phrase that occurs in a field, never with a space
\* or the field's start/end on both of its sides, does not trigger the exclusion
\* check for that field unless the trimmed field is the phrase itself; if it is
\* also an inclusion keyword and no exclusion phrase triggers on either field,
\* the record is accepted.
C3_EmbeddedPhraseIgnored ==
    called =>
        /\ \A f \in Fields : \A e \in exclusion_keywords :
              (NeverDelimited(e, Lowered(f)) /\ Strip(Lowered(f)) # e)
                  => ~contains_exact_exclusion(Str(f), {e})
        /\ ( /\ ~ExclusionTriggers
             /\ \E f \in Fields : \E e \in exclusion_keywords \cap keywords :
                    NeverDelimited(e, Lowered(f)) )
           => result = TRUE

\* C3 witness: the same word is an inclusion keyword and an exclusion phrase,
\* occurs in the headline only inside a longer word, and the record was accepted.
C3_Witness ==
    /\ called
    /\ result = TRUE
    /\ \E e \in exclusion_keywords \cap keywords :
          /\ NeverDelimited(e, Lowered(headline))
          /\ OnlyInsideLongerWords(e, Lowered(headline))

\* C4: an empty or missing field triggers neither check: the verdict is the one
\* the other field determines, and false when both fields are empty or missing.
C4_MissingFieldIsNeutral ==
    (called /\ keywords # {} /\ exclusion_keywords # {}) =>
        /\ EmptyOrMissing(headline) => result = VerdictOfField(position)
        /\ EmptyOrMissing(position) => result = VerdictOfField(headline)
        /\ (EmptyOrMissing(headline) /\ EmptyOrMissing(position)) => result = FALSE

\* C9 as stated: a multi-word exclusion phrase at the very start or end of a
\* field, with more text on the other side, does not trigger the exclusion
\* check, so the inclusion check alone classifies the record.
C9_EdgePhraseMissed ==
    called =>
        \A e \in exclusion_keywords :
            /\ \A f \in Fields :
                  (MultiWord(e) /\ (AtStart(e, Lowered(f)) \/ AtEnd(e, Lowered(f))))
                      => ~contains_exact_exclusion(Str(f), {e})
            /\ ( /\ exclusion_keywords = {e}
                 /\ MultiWord(e)
                 /\ \A f \in Fields :
                        \/ AtStart(e, Lowered(f)) \/ AtEnd(e, Lowered(f))
                        \/ ~contains_exact_exclusion(Str(f), {e}) )
               => result = SubstringInclusion

\* C9 amended: a multi-word exclusion phrase at the very start or end of a
\* field, separated by a space from the text on its other side, triggers the
\* exclusion check, and the record is rejected.
C9_EdgePhraseExcluded ==
    called =>
        \A f \in Fields : \A e \in exclusion_keywords :
            (MultiWord(e) /\ (AtStartSpaced(e, Lowered(f)) \/ AtEndSpaced(e, Lowered(f))))
                => /\ contains_exact_exclusion(Str(f), {e})
                   /\ result = FALSE

\* C9 witness: the headline starts with a two-word exclusion phrase followed by
\* more words, it matches an inclusion keyword, and the record was rejected.
C9_Witness ==
    /\ called
    /\ result = FALSE
    /\ \E e \in exclusion_keywords :
          /\ MultiWord(e)
          /\ AtStartSpaced(e, Lowered(headline))
          /\ ~contains_exact_exclusion(Str(position), exclusion_keywords)
    /\ \E kw \in keywords : Occurrences(kw, Lowered(headline)) # {}

-----------------------------------------------------------------------------
(* Vocabulary of the suggester's properties *)

\* the tokens of all non-missing rows, in input order (a row that is no str has none)
AllTokens == CollectTokens(dropna(text_series))

\* the tokens that are new, no stopword, and seen more than once
Candidates(tokens) ==
    {w \in SeqRange(tokens) :
        /\ w \notin existing_keywords
        /\ w \notin stopwords
        /\ CountOf(w, tokens) > 1}

FirstIndex(w, tokens) ==
    CHOOSE i \in DOMAIN tokens : tokens[i] = w /\ \A j \in 1..(i - 1) : tokens[j] # w

SuggestedWords == {suggestions.items[i].word : i \in DOMAIN suggestions.items}

\* a row entry that is missing or not a string
Malformed(v) == v.kind # "str"

\* the series with every malformed entry replaced by the empty string
AsIfEmpty(series) ==
    [i \in DOMAIN series |-> IF Malformed(series[i]) THEN StrCell(<<>>) ELSE series[i]]

-----------------------------------------------------------------------------
(* Properties of the suggester *)

\* C5: every suggested word is a token that is not an existing keyword, not a
\* stopword, and occurs more than once across the non-missing rows; its count is
\* that number of occurrences; when at most 25 tokens qualify, all are returned.
C5_SuggestionsAreRepeatedNewWords ==
    (suggested /\ ~suggestions.raised) =>
        LET tokens == AllTokens
            items == suggestions.items
            cands == Candidates(tokens)
        IN /\ \A i \in DOMAIN items :
                /\ items[i].word \in cands
                /\ items[i].count = CountOf(items[i].word, tokens)
           /\ Cardinality(cands) <= TopN => cands \subseteq SuggestedWords

\* C5 witness: suggestions were returned for rows in which a stopword, an
\* existing keyword and other words repeat and some word occurs only once,
\* with no more than 25 qualifying tokens.
C5_Witness ==
    /\ suggested
    /\ ~suggestions.raised
    /\ suggestions.items # <<>>
    /\ LET tokens == AllTokens
       IN /\ \E w \in stopwords : CountOf(w, tokens) > 1
          /\ \E w \in existing_keywords : CountOf(w, tokens) > 1
          /\ \E w \in SeqRange(tokens) : CountOf(w, tokens) = 1
          /\ Cardinality(Candidates(tokens)) <= TopN

\* C6: the result has at most 25 entries, in non-increasing order of count,
\* equal counts in order of first occurrence, and no candidate left out has a
\* strictly higher count than one that is in it.
C6_TopByCount ==
    (suggested /\ ~suggestions.raised) =>
        LET tokens == AllTokens
            items == suggestions.items
        IN /\ Len(items) <= TopN
           /\ \A i \in DOMAIN items : \A j \in DOMAIN items :
                i < j =>
                    /\ items[i].count >= items[j].count
                    /\ items[i].count = items[j].count =>
                          FirstIndex(items[i].word, tokens) < FirstIndex(items[j].word, tokens)
           /\ \A w \in Candidates(tokens) \ SuggestedWords :
                \A i \in DOMAIN items : CountOf(w, tokens) <= items[i].count

\* C6 witness: more than 25 tokens qualified, 25 were returned, their counts
\* differ, and a word first seen later precedes a word first seen earlier.
C6_Witness ==
    /\ suggested
    /\ ~suggestions.raised
    /\ Len(suggestions.items) = TopN
    /\ LET tokens == AllTokens
           items == suggestions.items
       IN /\ Cardinality(Candidates(tokens)) > TopN
          /\ items[1].count > items[TopN].count
          /\ FirstIndex(items[1].word, tokens) > FirstIndex(items[TopN].word, tokens)

\* C7: the suggester does not raise on a row entry that is missing or not a
\* string; such an entry contributes as if it were empty (no tokens).
C7_NoRaiseOnMalformed ==
    suggested =>
        /\ ~suggestions.raised
        /\ suggestions.items
             = extract_potential_keywords(AsIfEmpty(text_series), existing_keywords).items

-----------------------------------------------------------------------------
(* Properties of the script runs *)

\* the steps of a save that a run can be at
SaveSteps == {"save_load", "save_clear", "save_update", "rerun"}

\* C8 as stated: when loading either keyword list fails at start-up, the failure
\* is reported and the run halts: no filtering pass, no save.
C8_LoadFailureHalts ==
    \A u \in Users :
        session[u].failed # "none" =>
            /\ session[u].reported \cap {"error", "warning"} # {}
            /\ ~session[u].filtered
            /\ session[u].pc \notin SaveSteps

\* C8 amended: a failed load of the inclusion list is reported as an error and
\* halts the run (no filtering pass, no save); a failed load of the exclusion
\* list is reported as a warning and the run continues with no exclusion keywords.
C8_KeywordFailureHalts ==
    \A u \in Users :
        /\ session[u].failed = "keywords" =>
              /\ "error" \in session[u].reported
              /\ session[u].pc = "stopped"
              /\ ~session[u].filtered
        /\ session[u].failed = "exclusions" =>
              /\ "warning" \in session[u].reported
              /\ session[u].exclusion_keywords = {}
              /\ session[u].pc # "stopped"

\* C8 witness: one user's run has stopped on a failed load of the inclusion
\* list while another's, after a failed load of the exclusion list, has
\* filtered a table and is in the middle of a save.
C8_Witness ==
    \E u \in Users : \E v \in Users :
        /\ session[u].failed = "keywords"
        /\ session[u].pc = "stopped"
        /\ session[v].failed = "exclusions"
        /\ session[v].filtered
        /\ session[v].pc = "save_update"

\* C10: when a save call completes, every keyword that was stored in the sheet
\* when the call began is still stored in it, together with the new keywords.
C10_AppendOnly ==
    [][\A u \in Users :
          (session[u].pc = "save_update" /\ session'[u].pc = "rerun") =>
              (session[u].stored_before \cup session[u].new)
                  \subseteq LoadedFrom(sheets'[session[u].target])]_vars

====
